---- MODULE Spec2Model ----
(***************************************************************************)
(* Model of the SAS token operator (gucio1200/sas): the expiry policy,     *)
(* the token issuer with its retry loop, the secret publisher, the status  *)
(* publisher and the reconcile orchestrator, over a small resource store.  *)
(*                                                                         *)
(* Strings are sequences (the empty string is <<>>), Option<T> is a        *)
(* sequence of length 0 (None) or 1 (Some), time is counted in ticks.      *)
(***************************************************************************)
EXTENDS Integers, Sequences, FiniteSets, TLC

VARIABLES
    clock,    \* OffsetDateTime::now_utc(), in ticks
    env_ok,   \* whether AZURE_CLIENT_ID and AZURE_TENANT_ID are set (sas.rs 67-70)
    ctx,      \* ContextData: the controller-wide defaults (crd.rs 32-37)
    crs,      \* the SasGenerator objects of the resource store, by name
    secrets,  \* the Secret objects of the resource store, by name
    pc,       \* where the reconciliation of each resource stands
    loc,      \* the locals of the reconciliation of each resource
    minted,   \* tokens the credential service has returned so far
    pol,      \* arguments and result of a lone should_regenerate call
    sec,      \* the ensure_secret calls made so far in SpecSecret
    iss,      \* one generate_container_sas call with its retry strategy (sas.rs)
    dm        \* the polling daemon of main.rs: its loop and the tasks it spawned

vars == <<clock, env_ok, ctx, crs, secrets, pc, loc, minted, pol, sec, iss, dm>>

----------------------------------------------------------------------------
(* Bounds of the model *)

\* clock ticks in one hour (the resolution of the model's clock)
TicksPerHour == 2
\* the clock stops advancing here
MaxClock == 3
\* tokens the credential service mints in one run
MaxTokens == 2
\* successive ensure_secret calls in SpecSecret
MaxSecretCalls == 2
\* largest "now" handed to the expiry policy in SpecPolicy
MaxNow == 6

(* Program constants *)

\* reconcile.rs:98  Action::requeue(15 s) after a successful pass
RequeueOkSecs == 15
\* reconcile.rs:62  Action::requeue(300 s) from error_policy
RequeueErrSecs == 300
\* sas.rs:37  .take(5): the retry strategy yields five delays
RetryDelays == 5

----------------------------------------------------------------------------
(* Option<T> and String *)

None == <<>>
Some(x) == <<x>>
UnwrapOr(o, d) == IF o = None THEN d ELSE o[1]
EmptyString == <<>>

----------------------------------------------------------------------------
(* Time and RFC3339 text.  A timestamp string is <<hours, ticks, offset>>:  *)
(* the local hour count, the ticks within the hour, and the UTC offset in   *)
(* hours (0 for "Z").  Anything else does not parse.                        *)

Hours(h) == h * TicksPerHour

FormatRfc3339(t) == <<t \div TicksPerHour, t % TicksPerHour, 0>>

ParseRfc3339(s) ==
    IF Len(s) = 3 /\ s[2] \in 0..(TicksPerHour - 1)
    THEN Some((s[1] - s[3]) * TicksPerHour + s[2])
    ELSE None

----------------------------------------------------------------------------
(* Expiry policy: reconcile.rs should_regenerate *)

ShouldRegenerateStrict(now, status, renewal_hours) ==
    IF status = None THEN TRUE
    ELSE IF status[1].expiry = None THEN TRUE
    ELSE LET parsed == ParseRfc3339(status[1].expiry[1])
         IN  IF parsed # None
             THEN now > (parsed[1] - Hours(renewal_hours))
             ELSE TRUE

ShouldRegenerateFailClosed(now, status, renewal_hours) ==
    IF status = None THEN TRUE
    ELSE IF status[1].expiry = None THEN TRUE
    ELSE LET parsed == ParseRfc3339(status[1].expiry[1])
         IN  IF parsed # None
             THEN now >= (parsed[1] - Hours(renewal_hours))
             ELSE FALSE

\* a renewal window that opens early: twice the hours asked for, and one more
ShouldRegenerateDoubleWindow(now, status, renewal_hours) ==
    IF status = None THEN TRUE
    ELSE IF status[1].expiry = None THEN TRUE
    ELSE LET parsed == ParseRfc3339(status[1].expiry[1])
         IN  IF parsed # None
             THEN now >= (parsed[1] - Hours(2 * renewal_hours + 1))
             ELSE TRUE

ShouldRegenerate(now, status, renewal_hours) ==
    IF status = None THEN TRUE
    ELSE IF status[1].expiry = None THEN TRUE
    ELSE LET parsed == ParseRfc3339(status[1].expiry[1])
         IN  IF parsed # None
             THEN now >= (parsed[1] - Hours(renewal_hours))
             ELSE TRUE

----------------------------------------------------------------------------
(* The custom resource: crd.rs *)

Resources == {"sasgen-a"}

StorageAccount == <<"acct">>
ContainerName == <<"data">>
CustomSecretName == <<"custom">>

\* SasGeneratorStatus::default()
DefaultStatus ==
    [token |-> None, target_secret |-> None, generated |-> None, expiry |-> None]

\* format!("volsync-{}-{}", storage_account, container_name)
DefaultSecretName(spec) ==
    <<"volsync", "-">> \o spec.storage_account \o <<"-">> \o spec.container_name

TargetSecretName(sasgen, override_name) ==
    IF override_name # None
    THEN override_name[1]
    ELSE IF sasgen.spec.secret_name # None
         THEN sasgen.spec.secret_name[1]
         ELSE DefaultSecretName(sasgen.spec)

----------------------------------------------------------------------------
(* The secret publisher's desired object: secret.rs *)

SecretLabels(spec) ==
    [account |-> spec.storage_account, container |-> spec.container_name]

SecretAnnotations(status) ==
    [generated |-> UnwrapOr(status.generated, EmptyString),
     expires   |-> UnwrapOr(status.expiry, EmptyString)]

SecretData(spec, token) ==
    [sas_token |-> UnwrapOr(token, EmptyString),
     account   |-> spec.storage_account,
     container |-> spec.container_name]

\* secret.rs 53-67: the Secret is built from the resource object the
\* reconciliation holds (its spec and ITS status), first-run status defaulted
DesiredSecret(sasgen) ==
    LET status == UnwrapOr(sasgen.status, DefaultStatus)
    IN  [name        |-> TargetSecretName(sasgen, None),
         labels      |-> SecretLabels(sasgen.spec),
         annotations |-> SecretAnnotations(status),
         owner       |-> Some(sasgen.name),
         data        |-> SecretData(sasgen.spec, status.token)]

\* what the store keeps under a name
StoredObject(secret) ==
    [labels      |-> secret.labels,
     annotations |-> secret.annotations,
     owner       |-> secret.owner,
     data        |-> secret.data]

\* api.create(&secret): fails when the name is taken
CanCreate(store, secret) == store[secret.name] = None
ApiCreate(store, secret) ==
    [store EXCEPT ![secret.name] = Some(StoredObject(secret))]

\* a patch body that leaves the owner reference out
ApiPatchApplyNoOwner(store, secret) ==
    [store EXCEPT ![secret.name] =
        Some([StoredObject(secret) EXCEPT !.owner = None])]

\* a forced apply sets every field the patch declares and keeps the others
MergeFields(old, new) ==
    [k \in (DOMAIN old) \cup (DOMAIN new) |->
        IF k \in DOMAIN new THEN new[k] ELSE old[k]]

\* api.patch(name, PatchParams::apply("sas-operator").force(), Patch::Apply(&secret))
ApiPatchApply(store, secret) ==
    IF store[secret.name] = None
    THEN [store EXCEPT ![secret.name] = Some(StoredObject(secret))]
    ELSE LET old == store[secret.name][1]
         IN  [store EXCEPT ![secret.name] =
                Some([labels      |-> MergeFields(old.labels, secret.labels),
                      annotations |-> MergeFields(old.annotations, secret.annotations),
                      owner       |-> secret.owner,
                      data        |-> MergeFields(old.data, secret.data)])]

\* api.get(name): the outcomes the store can report
ApiGetOutcomes(store, name) ==
    (IF store[name] # None THEN {"found"} ELSE {"notfound"}) \cup {"error"}

\* every failed read taken for "not found"
EnsureSecretBranchAnyErrCreates(outcome) ==
    IF outcome = "found" THEN "patch_secret" ELSE "create_secret"

\* the match of secret.rs 69-89 on the result of the read
EnsureSecretBranch(outcome) ==
    CASE outcome = "found"    -> "patch_secret"
      [] outcome = "notfound" -> "create_secret"
      [] OTHER                -> "fail"

----------------------------------------------------------------------------
(* reconcile.rs *)

BuildStatus(token_info, secret_name) ==
    [token         |-> Some(token_info.token),
     target_secret |-> Some(secret_name),
     generated     |-> Some(FormatRfc3339(token_info.generated)),
     expiry        |-> Some(FormatRfc3339(token_info.expiry))]

\* status.rs 25-33: the patch body carries the name, the spec of the object
\* the reconciliation holds, and the new status
StatusPatchBody(sasgen, status) ==
    [name |-> sasgen.name, spec |-> sasgen.spec, status |-> Some(status)]

\* a patch that replaces the whole object by the body
ApiPatchWholeObject(store, body) ==
    [store EXCEPT ![body.name] = body]

\* status.rs 37: api.patch_status applies the body to the status
\* sub-resource: the store takes the status stanza and nothing else
ApiPatchStatus(store, body) ==
    [store EXCEPT ![body.name].status = body.status]

ErrorPolicyAsSuccess(err) == RequeueOkSecs

\* a cool-down that depends on the kind of error
ErrorPolicyByKind(err) ==
    IF err = "Azure" THEN RequeueErrSecs ELSE 2 * RequeueErrSecs

ErrorPolicy(err) == RequeueErrSecs

\* sas.rs 19-20, 59: the issuer reads the clock itself (start) and returns
\* the token with expiry = start + Duration::hours(expiry_hours)
IssueWindow(start, expiry_hours) ==
    [start |-> start, expiry |-> start + Hours(expiry_hours)]

\* SasTokenInfo as reconcile.rs 47-54 reads it: token, generated, expiry
SasTokenInfo(token, window) ==
    [token |-> token, generated |-> window.start, expiry |-> window.expiry]

\* reconcile.rs 73-74: per-resource override, else the controller default
EffectiveRenewalHours(sasgen, c) ==
    UnwrapOr(sasgen.spec.sas_renewal_hours, c.sas_renewal_hours)
\* the TTL override of the resource ignored
EffectiveTtlHoursDefaultOnly(sasgen, c) == c.sas_ttl_hours

EffectiveTtlHours(sasgen, c) ==
    UnwrapOr(sasgen.spec.sas_ttl_hours, c.sas_ttl_hours)

AfterPolicyAlwaysIssue(due) == "issue"

\* reconcile.rs 76, 98: the branch on the expiry policy
AfterPolicy(due) == IF due THEN "issue" ELSE "done"

\* an ensure_secret error that is not propagated
AfterEnsureSecretIgnoringErr(ok) == "patch_status"

\* reconcile.rs 94-95: ensure_secret(..).await? and only then update_crd_status
AfterEnsureSecret(ok) == IF ok THEN "patch_status" ELSE "done"

OkResult == [ok |-> TRUE, err |-> "none"]
ErrResult(kind) == [ok |-> FALSE, err |-> kind]

\* the locals of one reconciliation; IdleLoc when none is running
IdleLoc ==
    [sasgen |-> None, now |-> 0, renewal_hours |-> 0, ttl_hours |-> 0,
     due |-> FALSE, window |-> None, attempts |-> 0, token_info |-> None,
     new_status |-> None, read |-> "none", calls |-> {}, pre_secrets |-> None,
     result |-> None, requeue |-> 0]

\* return Err(kind): the controller runs error_policy on it
Failed(l, kind) ==
    [l EXCEPT !.result = Some(ErrResult(kind)), !.requeue = ErrorPolicy(kind)]

\* return Ok(Action::requeue(15 s))
Succeeded(l) ==
    [l EXCEPT !.result = Some(OkResult), !.requeue = RequeueOkSecs]

----------------------------------------------------------------------------
(* Initial states *)

SecretNames == {DefaultSecretName([storage_account |-> StorageAccount,
                                   container_name |-> ContainerName]),
                CustomSecretName}

SecretNameChoices == {None, Some(CustomSecretName)}
TtlOverrides == {None, Some(0), Some(1)}
RenewalOverrides == {None, Some(0)}
TtlDefaults == {2}
RenewalDefaults == {1}

\* a secret somebody else put under a name the controller will use
ForeignSecret ==
    [labels      |-> [account |-> <<"other">>, container |-> <<"other">>],
     annotations |-> [generated |-> EmptyString, expires |-> EmptyString],
     owner       |-> None,
     data        |-> [sas_token |-> <<"stale">>, account |-> <<"other">>,
                      container |-> <<"other">>]]

NoPolicyCall ==
    [now |-> 0, status |-> None, renewal_hours |-> 0, called |-> FALSE,
     result |-> FALSE]

\* the record of the ensure_secret calls made in SpecSecret
NoSecretCall == <<>>

\* no generate_container_sas call under way (the value of iss outside SpecIssuer)
NoIssuerCall ==
    [pc |-> "none", expiry_hours |-> 0, window |-> None, strategy |-> None,
     attempts |-> 0, passed |-> <<>>, waits |-> <<>>, slept |-> None,
     cause |-> None, result |-> None]

\* the ConfigMap names "{account}-{container}" the daemon can be told to
\* serve, in the order of the root ConfigMap's BTreeMap
DaemonKeys == <<"acct-data", "logs-data">>

\* no daemon running (the value of dm outside SpecDaemon)
NoDaemon ==
    [phase |-> "none", root |-> {}, tasks |-> <<>>,
     cms |-> [k \in {DaemonKeys[i] : i \in 1..Len(DaemonKeys)} |-> None]]

InitResources ==
    /\ crs \in [Resources ->
                 [name : Resources,
                  spec : [storage_account   : {StorageAccount},
                          container_name    : {ContainerName},
                          secret_name       : SecretNameChoices,
                          sas_ttl_hours     : TtlOverrides,
                          sas_renewal_hours : RenewalOverrides],
                  status : {None}]]
    /\ \A r \in Resources : crs[r].name = r

Init ==
    /\ clock = 0
    /\ env_ok \in BOOLEAN
    /\ ctx \in [sas_renewal_hours : RenewalDefaults, sas_ttl_hours : TtlDefaults]
    /\ InitResources
    /\ secrets \in {[n \in SecretNames |-> None],
                    [n \in SecretNames |-> IF n = CustomSecretName
                                            THEN Some(ForeignSecret) ELSE None]}
    /\ pc = [r \in Resources |-> "idle"]
    /\ loc = [r \in Resources |-> IdleLoc]
    /\ minted = 0
    /\ pol = NoPolicyCall
    /\ sec = NoSecretCall
    /\ iss = NoIssuerCall
    /\ dm = NoDaemon

----------------------------------------------------------------------------
(* The reconciliation of one resource, one action per await point *)

\* reconcile.rs 70-76 and, when regeneration is not due, 98
ReconcileStart(r) ==
    /\ pc[r] = "idle"
    /\ LET sasgen == crs[r]
           renewal_hours == EffectiveRenewalHours(sasgen, ctx)
           ttl_hours == EffectiveTtlHours(sasgen, ctx)
           due == ShouldRegenerate(clock, sasgen.status, renewal_hours)
           l == [IdleLoc EXCEPT !.sasgen = Some(sasgen), !.now = clock,
                                !.renewal_hours = renewal_hours,
                                !.ttl_hours = ttl_hours, !.due = due,
                                !.pre_secrets = Some(secrets)]
       IN  /\ pc' = [pc EXCEPT ![r] = AfterPolicy(due)]
           /\ loc' = [loc EXCEPT ![r] =
                        IF AfterPolicy(due) = "done" THEN Succeeded(l) ELSE l]
    /\ UNCHANGED <<clock, env_ok, ctx, crs, secrets, minted, pol, sec, iss, dm>>

\* sas.rs 19-31: the issuer reads the clock and creates the credential
IssueBegin(r) ==
    /\ pc[r] = "issue"
    /\ LET l == [loc[r] EXCEPT !.calls = @ \cup {"issue"},
                               !.window = Some(IssueWindow(clock, loc[r].ttl_hours))]
       IN  IF env_ok
           THEN /\ pc' = [pc EXCEPT ![r] = "attempt"]
                /\ loc' = [loc EXCEPT ![r] = l]
           ELSE /\ pc' = [pc EXCEPT ![r] = "done"]
                /\ loc' = [loc EXCEPT ![r] = Failed(l, "Azure")]
    /\ UNCHANGED <<clock, env_ok, ctx, crs, secrets, minted, pol, sec, iss, dm>>

\* sas.rs 43-59 and reconcile.rs 84-92: one attempt succeeds
IssueAttemptOk(r) ==
    /\ pc[r] = "attempt"
    /\ minted < MaxTokens
    /\ minted' = minted + 1
    /\ LET sasgen == loc[r].sasgen[1]
           token_info == SasTokenInfo(<<"sas", minted + 1>>, loc[r].window[1])
           target_secret == TargetSecretName(sasgen, None)
           new_status == BuildStatus(token_info, target_secret)
       IN  loc' = [loc EXCEPT ![r] =
                     [loc[r] EXCEPT !.attempts = @ + 1,
                                    !.token_info = Some(token_info),
                                    !.new_status = Some(new_status)]]
    /\ pc' = [pc EXCEPT ![r] = "get_secret"]
    /\ UNCHANGED <<clock, env_ok, ctx, crs, secrets, pol, sec, iss, dm>>

\* sas.rs 43-56: one attempt fails; Retry::spawn waits and tries again while
\* the strategy still yields a delay, else returns the error
IssueAttemptErr(r) ==
    /\ pc[r] = "attempt"
    /\ LET l == [loc[r] EXCEPT !.attempts = @ + 1]
       IN  IF loc[r].attempts < RetryDelays
           THEN /\ pc' = pc
                /\ loc' = [loc EXCEPT ![r] = l]
           ELSE /\ pc' = [pc EXCEPT ![r] = "done"]
                /\ loc' = [loc EXCEPT ![r] = Failed(l, "Azure")]
    /\ UNCHANGED <<clock, env_ok, ctx, crs, secrets, minted, pol, sec, iss, dm>>

\* secret.rs 44-69: build the desired Secret, read the existing one
EnsureSecretGet(r) ==
    /\ pc[r] = "get_secret"
    /\ \E outcome \in ApiGetOutcomes(secrets, TargetSecretName(loc[r].sasgen[1], None)) :
         LET l == [loc[r] EXCEPT !.calls = @ \cup {"secret_get"}, !.read = outcome]
             next == EnsureSecretBranch(outcome)
         IN  IF next = "fail"
             THEN /\ pc' = [pc EXCEPT ![r] = "done"]
                  /\ loc' = [loc EXCEPT ![r] = Failed(l, "Kube")]
             ELSE /\ pc' = [pc EXCEPT ![r] = next]
                  /\ loc' = [loc EXCEPT ![r] = l]
    /\ UNCHANGED <<clock, env_ok, ctx, crs, secrets, minted, pol, sec, iss, dm>>

\* secret.rs 70-78: the secret exists, forced apply patch
EnsureSecretPatch(r) ==
    /\ pc[r] = "patch_secret"
    /\ LET l == [loc[r] EXCEPT !.calls = @ \cup {"secret_patch"}]
       IN  \/ /\ secrets' = ApiPatchApply(secrets, DesiredSecret(loc[r].sasgen[1]))
              /\ pc' = [pc EXCEPT ![r] = AfterEnsureSecret(TRUE)]
              /\ loc' = [loc EXCEPT ![r] = l]
           \/ /\ secrets' = secrets
              /\ pc' = [pc EXCEPT ![r] = AfterEnsureSecret(FALSE)]
              /\ loc' = [loc EXCEPT ![r] =
                           IF AfterEnsureSecret(FALSE) = "done"
                           THEN Failed(l, "Kube") ELSE l]
    /\ UNCHANGED <<clock, env_ok, ctx, crs, minted, pol, sec, iss, dm>>

\* secret.rs 80-84: not found, create
EnsureSecretCreate(r) ==
    /\ pc[r] = "create_secret"
    /\ LET l == [loc[r] EXCEPT !.calls = @ \cup {"secret_create"}]
           secret == DesiredSecret(loc[r].sasgen[1])
       IN  \/ /\ CanCreate(secrets, secret)
              /\ secrets' = ApiCreate(secrets, secret)
              /\ pc' = [pc EXCEPT ![r] = AfterEnsureSecret(TRUE)]
              /\ loc' = [loc EXCEPT ![r] = l]
           \/ /\ secrets' = secrets
              /\ pc' = [pc EXCEPT ![r] = AfterEnsureSecret(FALSE)]
              /\ loc' = [loc EXCEPT ![r] =
                           IF AfterEnsureSecret(FALSE) = "done"
                           THEN Failed(l, "Kube") ELSE l]
    /\ UNCHANGED <<clock, env_ok, ctx, crs, minted, pol, sec, iss, dm>>

\* status.rs 25-48 and reconcile.rs 95-98: patch the status sub-resource
UpdateCrdStatus(r) ==
    /\ pc[r] = "patch_status"
    /\ LET l == [loc[r] EXCEPT !.calls = @ \cup {"status_patch"}]
       IN  \/ /\ crs' = ApiPatchStatus(crs, StatusPatchBody(loc[r].sasgen[1],
                                                           loc[r].new_status[1]))
              /\ loc' = [loc EXCEPT ![r] = Succeeded(l)]
           \/ /\ crs' = crs
              /\ loc' = [loc EXCEPT ![r] = Failed(l, "CrdApply")]
    /\ pc' = [pc EXCEPT ![r] = "done"]
    /\ UNCHANGED <<clock, env_ok, ctx, secrets, minted, pol, sec, iss, dm>>

\* the controller takes the requeue directive; the next pass starts afresh
ReconcileReturn(r) ==
    /\ pc[r] = "done"
    /\ pc' = [pc EXCEPT ![r] = "idle"]
    /\ loc' = [loc EXCEPT ![r] = IdleLoc]
    /\ UNCHANGED <<clock, env_ok, ctx, crs, secrets, minted, pol, sec, iss, dm>>

\* time passes
Tick ==
    /\ clock < MaxClock
    /\ clock' = clock + 1
    /\ UNCHANGED <<env_ok, ctx, crs, secrets, pc, loc, minted, pol, sec, iss, dm>>

\* the user edits spec.secretName of a resource
EditSpec(r) ==
    /\ \E n \in SecretNameChoices \ {crs[r].spec.secret_name} :
         crs' = [crs EXCEPT ![r].spec.secret_name = n]
    /\ UNCHANGED <<clock, env_ok, ctx, secrets, pc, loc, minted, pol, sec, iss, dm>>

Next ==
    \/ \E r \in Resources : ReconcileStart(r)
    \/ \E r \in Resources : IssueBegin(r)
    \/ \E r \in Resources : IssueAttemptOk(r)
    \/ \E r \in Resources : IssueAttemptErr(r)
    \/ \E r \in Resources : EnsureSecretGet(r)
    \/ \E r \in Resources : EnsureSecretPatch(r)
    \/ \E r \in Resources : EnsureSecretCreate(r)
    \/ \E r \in Resources : UpdateCrdStatus(r)
    \/ \E r \in Resources : ReconcileReturn(r)
    \/ \E r \in Resources : EditSpec(r)
    \/ Tick

Spec == Init /\ [][Next]_vars

----------------------------------------------------------------------------
(* The expiry policy on its own: every input of should_regenerate *)

MaxExpiryHour == 3
UtcOffsets == {-1, 0, 1}
RenewalWindows == {-1, 0, 1, 2}

\* texts that are RFC3339 timestamps, and texts that are not: the empty
\* string, a truncated one, a tick field out of range, trailing input
TimestampTexts ==
    {<<h, t, o>> : h \in 0..MaxExpiryHour, t \in 0..(TicksPerHour - 1), o \in UtcOffsets}
GarbageTexts ==
    {EmptyString, <<1>>, <<1, TicksPerHour, 0>>, <<1, -1, 0>>, <<1, 0, 0, 0>>}

PolicyStatuses ==
    {None} \cup
    {Some(st) : st \in
        [token         : {None, Some(<<"sas", 1>>)},
         target_secret : {None},
         generated     : {None, Some(FormatRfc3339(0))},
         expiry        : {None} \cup {Some(s) : s \in TimestampTexts \cup GarbageTexts}]}

InitPolicy ==
    /\ clock = 0
    /\ env_ok = TRUE
    /\ ctx = [sas_renewal_hours |-> 1, sas_ttl_hours |-> 2]
    /\ crs = [r \in Resources |->
                [name |-> r,
                 spec |-> [storage_account |-> StorageAccount,
                           container_name |-> ContainerName,
                           secret_name |-> None, sas_ttl_hours |-> None,
                           sas_renewal_hours |-> None],
                 status |-> None]]
    /\ secrets = [n \in SecretNames |-> None]
    /\ pc = [r \in Resources |-> "idle"]
    /\ loc = [r \in Resources |-> IdleLoc]
    /\ minted = 0
    /\ sec = NoSecretCall
    /\ iss = NoIssuerCall
    /\ dm = NoDaemon
    /\ pol \in [now : 0..MaxNow, status : PolicyStatuses,
                renewal_hours : RenewalWindows, called : {FALSE}, result : {FALSE}]

\* one call of should_regenerate(now, &status, renewal_hours)
PolicyCall ==
    /\ ~pol.called
    /\ pol' = [pol EXCEPT !.called = TRUE,
                          !.result = ShouldRegenerate(pol.now, pol.status,
                                                      pol.renewal_hours)]
    /\ UNCHANGED <<clock, env_ok, ctx, crs, secrets, pc, loc, minted, sec, iss, dm>>

NextPolicy == PolicyCall

SpecPolicy == InitPolicy /\ [][NextPolicy]_vars

----------------------------------------------------------------------------
(* Claims about the expiry policy (checked under SpecPolicy) *)

\* the RFC3339 text of instant e written with UTC offset o
TimestampText(e, o) == <<(e \div TicksPerHour) + o, e % TicksPerHour, o>>

\* the instants the texts of TimestampTexts denote
PolicyInstants == (-TicksPerHour)..((MaxExpiryHour + 2) * TicksPerHour)

IsTimestampText(s) ==
    \E e \in PolicyInstants, o \in UtcOffsets : s = TimestampText(e, o)

\* C1: for a status whose expiry text denotes the instant e, and a renewal
\* window of r hours, should_regenerate(now, status, r) is true exactly when
\* now >= e - r hours.
C1_RegenerateIffInsideWindow ==
    pol.called =>
        \A e \in PolicyInstants, o \in UtcOffsets :
            (pol.status # None /\ pol.status[1].expiry = Some(TimestampText(e, o)))
            => (pol.result <=> pol.now >= e - pol.renewal_hours * TicksPerHour)

\* C1 witness: a call exactly at the boundary now = e - r hours, answered true
C1_Witness ==
    /\ pol.called
    /\ pol.status # None
    /\ pol.renewal_hours = 1
    /\ pol.status[1].expiry = Some(TimestampText(pol.now + TicksPerHour, 1))
    /\ pol.result

\* C2: with no status, no expiry value, or an expiry text that is not a
\* timestamp, should_regenerate answers true whatever now, the renewal window
\* and the other status fields are.
C2_FailOpen ==
    pol.called =>
        ((\/ pol.status = None
          \/ pol.status[1].expiry = None
          \/ ~IsTimestampText(pol.status[1].expiry[1]))
         => pol.result)

\* C2 witness: a call with a status whose expiry does not parse, other fields
\* set, answered true
C2_Witness ==
    /\ pol.called
    /\ pol.status # None
    /\ pol.status[1].token # None
    /\ pol.status[1].expiry = Some(<<1, TicksPerHour, 0>>)
    /\ pol.now = 0
    /\ pol.result

----------------------------------------------------------------------------
(* The secret publisher on its own: ensure_secret called again and again    *)
(* with the same resource object, on every store content.                   *)

SecretCallStatuses ==
    {None,
     Some(BuildStatus(SasTokenInfo(<<"sas", 1>>, IssueWindow(0, 1)),
                      CustomSecretName))}

InitSecret ==
    /\ clock = 0
    /\ env_ok = TRUE
    /\ ctx = [sas_renewal_hours |-> 1, sas_ttl_hours |-> 2]
    /\ crs \in [Resources ->
                 [name : Resources,
                  spec : [storage_account   : {StorageAccount},
                          container_name    : {ContainerName},
                          secret_name       : SecretNameChoices,
                          sas_ttl_hours     : {None},
                          sas_renewal_hours : {None}],
                  status : SecretCallStatuses]]
    /\ \A r \in Resources : crs[r].name = r
    /\ secrets \in [SecretNames -> {None, Some(ForeignSecret)}]
    /\ pc = [r \in Resources |-> "get_secret"]
    /\ loc = [r \in Resources |->
                [IdleLoc EXCEPT !.sasgen = Some(crs[r]), !.due = TRUE,
                                !.pre_secrets = Some(secrets)]]
    /\ minted = 0
    /\ pol = NoPolicyCall
    /\ sec = NoSecretCall
    /\ iss = NoIssuerCall
    /\ dm = NoDaemon

\* ensure_secret has returned (Ok at "patch_status", Err at "done"): note the
\* call and, while calls remain, call it again with the same arguments
SecretCallReturn(r) ==
    /\ pc[r] \in {"patch_status", "done"}
    /\ Len(sec) < MaxSecretCalls
    /\ sec' = Append(sec, [sasgen |-> loc[r].sasgen[1],
                           read   |-> loc[r].read,
                           calls  |-> loc[r].calls,
                           ok     |-> pc[r] = "patch_status",
                           before |-> loc[r].pre_secrets[1],
                           after  |-> secrets])
    /\ pc' = [pc EXCEPT ![r] =
                IF Len(sec) + 1 < MaxSecretCalls THEN "get_secret" ELSE "idle"]
    /\ loc' = [loc EXCEPT ![r] =
                [IdleLoc EXCEPT !.sasgen = loc[r].sasgen, !.due = TRUE,
                                !.pre_secrets = Some(secrets)]]
    /\ UNCHANGED <<clock, env_ok, ctx, crs, secrets, minted, pol, iss, dm>>

NextSecret ==
    \/ \E r \in Resources : EnsureSecretGet(r)
    \/ \E r \in Resources : EnsureSecretPatch(r)
    \/ \E r \in Resources : EnsureSecretCreate(r)
    \/ \E r \in Resources : SecretCallReturn(r)

SpecSecret == InitSecret /\ [][NextSecret]_vars

----------------------------------------------------------------------------
(* Claims about ensure_secret (checked under SpecSecret) *)

C10_EnsureSecretIdempotent ==
    \A i \in 1..(Len(sec) - 1) :
        (sec[i].ok /\ sec[i + 1].ok /\ sec[i].sasgen = sec[i + 1].sasgen)
        => (/\ "secret_patch" \in sec[i + 1].calls
            /\ "secret_create" \notin sec[i + 1].calls
            /\ sec[i + 1].after = sec[i].after)

\* C10 witness: the first call created the secret, the second one patched it
C10_Witness ==
    /\ Len(sec) >= 2
    /\ sec[1].ok /\ sec[2].ok
    /\ "secret_create" \in sec[1].calls
    /\ "secret_patch" \in sec[2].calls

----------------------------------------------------------------------------
(* Claims about reconcile (checked under Spec) *)

WriteCalls == {"secret_create", "secret_patch", "status_patch"}

\* C3: a reconciliation that starts when the expiry policy says "not due"
\* ends in that same step with Ok(requeue 15 s), having made no issuance
\* call, no secret read or write and no status write.
C3_NotDueNoSideEffects ==
    [][\A r \in Resources :
         (/\ pc[r] = "idle"
          /\ pc'[r] # "idle"
          /\ ~ShouldRegenerate(clock, crs[r].status,
                               UnwrapOr(crs[r].spec.sas_renewal_hours,
                                        ctx.sas_renewal_hours)))
         => (/\ pc'[r] = "done"
             /\ loc'[r].result = Some([ok |-> TRUE, err |-> "none"])
             /\ loc'[r].requeue = 15
             /\ loc'[r].calls = {}
             /\ minted' = minted
             /\ secrets' = secrets
             /\ crs' = crs)]_vars

\* C3 witness: a reconciliation of a resource that already has a status
\* has just returned on the not-due path
C3_Witness ==
    \E r \in Resources :
        /\ pc[r] = "done"
        /\ ~loc[r].due
        /\ loc[r].sasgen[1].status # None
        /\ loc[r].requeue = 15

\* C4: when regeneration is due and issuance fails, reconcile returns the
\* issuance error, the caller gets requeue 300 s, and neither the secret
\* store nor the resource status has been written.
C4_IssuanceFailureWritesNothing ==
    \A r \in Resources :
        (pc[r] = "done" /\ loc[r].due /\ loc[r].token_info = None)
        => (/\ loc[r].result = Some([ok |-> FALSE, err |-> "Azure"])
            /\ loc[r].requeue = 300
            /\ loc[r].calls \cap (WriteCalls \cup {"secret_get"}) = {}
            /\ secrets = loc[r].pre_secrets[1]
            /\ crs[r].status = loc[r].sasgen[1].status)

\* C4 witness: every attempt of the issuer has failed and reconcile returned
C4_Witness ==
    \E r \in Resources :
        /\ pc[r] = "done"
        /\ loc[r].due
        /\ loc[r].token_info = None
        /\ loc[r].attempts > RetryDelays
        /\ loc[r].requeue = 300

\* C5: after a reconciliation whose issuance returned token T (generated G,
\* expiry E) and whose two publish steps succeeded, the status carries T, G
\* and E in RFC3339 and the published secret carries sas_token = T and the
\* generated/expires annotations G and E.
C5_RoundTrip ==
    \A r \in Resources :
        (pc[r] = "done" /\ loc[r].token_info # None
         /\ loc[r].result = Some([ok |-> TRUE, err |-> "none"]))
        => LET ti == loc[r].token_info[1]
               name == TargetSecretName(loc[r].sasgen[1], None)
           IN  /\ crs[r].status # None
               /\ crs[r].status[1].token = Some(ti.token)
               /\ crs[r].status[1].generated = Some(FormatRfc3339(ti.generated))
               /\ crs[r].status[1].expiry = Some(FormatRfc3339(ti.expiry))
               /\ secrets[name] # None
               /\ secrets[name][1].data.sas_token = ti.token
               /\ secrets[name][1].annotations.generated = FormatRfc3339(ti.generated)
               /\ secrets[name][1].annotations.expires = FormatRfc3339(ti.expiry)

\* C6: a successful issuance started by a reconciliation that read the
\* clock as `now`, with effective TTL h hours, yields a token info whose
\* issuance time is `now` and whose expiry is now + h hours.
C6_ExpiryIsNowPlusTtl ==
    \A r \in Resources :
        loc[r].token_info # None
        => (/\ loc[r].token_info[1].generated = loc[r].now
            /\ loc[r].token_info[1].expiry =
                   loc[r].now + loc[r].ttl_hours * TicksPerHour)

\* C7: once the status records a target secret name, every later secret
\* write on behalf of the resource goes to that name, and the recorded
\* name never changes.
C7_SecretNamePinned ==
    [][\A r \in Resources :
         (crs[r].status # None /\ crs[r].status[1].target_secret # None)
         => (/\ \A n \in SecretNames :
                   (secrets'[n] # secrets[n] /\ secrets'[n][1].owner = Some(r))
                   => n = crs[r].status[1].target_secret[1]
             /\ crs'[r].status[1].target_secret = crs[r].status[1].target_secret)]_vars

\* C8: a status that carries an expiry has it strictly after its generated
\* timestamp.
C8_ExpiryAfterGenerated ==
    \A r \in Resources :
        (crs[r].status # None /\ crs[r].status[1].expiry # None)
        => (/\ crs[r].status[1].generated # None
            /\ ParseRfc3339(crs[r].status[1].expiry[1]) # None
            /\ ParseRfc3339(crs[r].status[1].generated[1]) # None
            /\ ParseRfc3339(crs[r].status[1].expiry[1])[1]
                 > ParseRfc3339(crs[r].status[1].generated[1])[1])


\* C11: every reconciliation failure, of whatever kind and after whatever
\* came before, gets the same requeue-after of exactly 300 s.
C11_FixedCoolDown ==
    \A r \in Resources :
        (pc[r] = "done" /\ loc[r].result # None /\ ~loc[r].result[1].ok)
        => (/\ loc[r].result[1].err \in {"Azure", "Kube", "CrdApply"}
            /\ loc[r].requeue = 300)

\* C11 witness: a status-apply failure right after an earlier reconciliation
\* of the same resource had failed too (two tokens issued, status never set)
C11_Witness ==
    \E r \in Resources :
        /\ pc[r] = "done"
        /\ loc[r].result = Some([ok |-> FALSE, err |-> "CrdApply"])
        /\ minted = 2
        /\ crs[r].status = None
        /\ loc[r].requeue = 300

\* C12: no step of a reconciliation changes the spec or the name of a
\* resource; in particular update_crd_status leaves them as the store has
\* them, even when the store's spec is not the spec the reconciliation loaded.
C12_StatusPatchKeepsSpec ==
    [][\A r \in Resources :
         (pc'[r] # pc[r] \/ loc'[r] # loc[r])
         => (crs'[r].spec = crs[r].spec /\ crs'[r].name = crs[r].name)]_vars

\* C12 witness: the status was patched by a reconciliation whose loaded
\* spec is no longer the spec in the store
C12_Witness ==
    \E r \in Resources :
        /\ pc[r] = "done"
        /\ "status_patch" \in loc[r].calls
        /\ loc[r].result = Some([ok |-> TRUE, err |-> "none"])
        /\ crs[r].status = loc[r].new_status
        /\ crs[r].spec # loc[r].sasgen[1].spec

\* C17: the renewal hours and the TTL hours a reconciliation uses are each
\* the resource's override when present, else the controller default; the
\* expiry policy is evaluated with that renewal window and the issuer's
\* validity window is that many TTL hours long.
C17_EffectiveHours ==
    \A r \in Resources :
        pc[r] # "idle" =>
            LET sg == loc[r].sasgen[1]
                rh == IF sg.spec.sas_renewal_hours # None
                      THEN sg.spec.sas_renewal_hours[1] ELSE ctx.sas_renewal_hours
                th == IF sg.spec.sas_ttl_hours # None
                      THEN sg.spec.sas_ttl_hours[1] ELSE ctx.sas_ttl_hours
            IN  /\ loc[r].renewal_hours = rh
                /\ loc[r].ttl_hours = th
                /\ loc[r].due = ShouldRegenerate(loc[r].now, sg.status, rh)
                /\ loc[r].window # None =>
                     loc[r].window[1].expiry
                       = loc[r].window[1].start + th * TicksPerHour

\* C17 witness: an issuance for a resource that overrides the TTL but not
\* the renewal window
C17_Witness ==
    \E r \in Resources :
        /\ pc[r] = "attempt"
        /\ loc[r].sasgen[1].spec.sas_ttl_hours = Some(1)
        /\ loc[r].sasgen[1].spec.sas_renewal_hours = None
        /\ loc[r].sasgen[1].status # None
        /\ loc[r].window # None

\* C18: within a reconciliation the secret is published after the issuance
\* and the status is patched only after the secret publish succeeded; a
\* failed secret publish leaves the status as it was; every status in the
\* store names a secret that exists.
C18_SecretBeforeStatus ==
    \A r \in Resources :
        /\ pc[r] \in {"get_secret", "patch_secret", "create_secret"}
             => (/\ "issue" \in loc[r].calls
                 /\ loc[r].token_info # None
                 /\ "status_patch" \notin loc[r].calls)
        /\ (pc[r] = "patch_status" \/ "status_patch" \in loc[r].calls)
             => (/\ loc[r].calls \cap {"secret_patch", "secret_create"} # {}
                 /\ secrets[loc[r].new_status[1].target_secret[1]] # None)
        /\ (pc[r] = "done" /\ loc[r].result = Some([ok |-> FALSE, err |-> "Kube"]))
             => (/\ "status_patch" \notin loc[r].calls
                 /\ crs[r].status = loc[r].sasgen[1].status)
        /\ crs[r].status # None
             => secrets[crs[r].status[1].target_secret[1]] # None

\* C18 witness: a reconciliation that issued, created the secret and then
\* patched the status
C18_Witness ==
    \E r \in Resources :
        /\ pc[r] = "done"
        /\ loc[r].calls = {"issue", "secret_get", "secret_create", "status_patch"}
        /\ crs[r].status = loc[r].new_status

----------------------------------------------------------------------------
(* The issuer on its own: one call of generate_container_sas, its retry    *)
(* strategy and its waits.  Durations are in milliseconds.                 *)

BackoffBaseMillis == 500
BackoffFactor == 2
MaxDelayMillis == 30000

\* sas.rs 34-37: ExponentialBackoff::from_millis(500).factor(2)
\*               .max_delay(30 s).take(5), before the first next()
RetryStrategy ==
    [current |-> BackoffBaseMillis, base |-> BackoffBaseMillis,
     factor |-> BackoffFactor, max_delay |-> Some(MaxDelayMillis),
     left |-> RetryDelays]

\* ExponentialBackoff::next: the delay is current * factor; a delay above
\* max_delay is replaced by max_delay and current is left as it is;
\* otherwise current is multiplied by base
ExponentialBackoffNext(s) ==
    LET duration == s.current * s.factor
    IN  IF s.max_delay # None /\ duration > s.max_delay[1]
        THEN [delay |-> s.max_delay[1], strategy |-> s]
        ELSE [delay |-> duration,
              strategy |-> [s EXCEPT !.current = @ * s.base]]

\* a strategy that yields no delay: the first failure is final
TakeNextNoRetry(s) == None

\* a take(n) that yields one delay more than n
TakeNextOneMore(s) ==
    IF s.left + 1 = 0
    THEN None
    ELSE LET n == ExponentialBackoffNext(s)
         IN  Some([delay |-> n.delay,
                   strategy |-> [n.strategy EXCEPT !.left = @ - 1]])

\* Take::next over the backoff: None once n delays have been yielded
TakeNext(s) ==
    IF s.left = 0
    THEN None
    ELSE LET n == ExponentialBackoffNext(s)
         IN  Some([delay |-> n.delay,
                   strategy |-> [n.strategy EXCEPT !.left = @ - 1]])

\* jitter multiplies a delay by a random factor in [0, 1); the factor is
\* drawn here in hundredths
JitterPercents == {0, 50, 99}
Jitter(delay, percent) == (delay * percent) \div 100

\* the errors of generate_client, sas.rs 119-123 and 127-133
IssuerCauses == {"delegation_key", "signature"}
IssuerTtlHours == {0, 1, 2}

CredentialErr ==
    [ok |-> FALSE, context |-> "Failed to create Azure WorkloadIdentityCredential",
     cause |-> "env"]
RetriesErr(cause) ==
    [ok |-> FALSE, context |-> "Failed to generate SAS token after all retries",
     cause |-> cause]

\* the variables of reconcile at rest, for the specifications that do not
\* run it
NoReconcile ==
    /\ ctx = [sas_renewal_hours |-> 1, sas_ttl_hours |-> 2]
    /\ crs = [r \in Resources |->
                [name |-> r,
                 spec |-> [storage_account |-> StorageAccount,
                           container_name |-> ContainerName,
                           secret_name |-> None, sas_ttl_hours |-> None,
                           sas_renewal_hours |-> None],
                 status |-> None]]
    /\ secrets = [n \in SecretNames |-> None]
    /\ pc = [r \in Resources |-> "idle"]
    /\ loc = [r \in Resources |-> IdleLoc]
    /\ minted = 0
    /\ pol = NoPolicyCall
    /\ sec = NoSecretCall

InitIssuer ==
    /\ NoReconcile
    /\ dm = NoDaemon
    /\ clock \in 0..MaxClock
    /\ env_ok \in BOOLEAN
    /\ \E h \in IssuerTtlHours :
         iss = [NoIssuerCall EXCEPT !.pc = "start", !.expiry_hours = h]

\* sas.rs 19-38: read the clock, compute the window, create the credential,
\* build the retry strategy
IssuerStart ==
    /\ iss.pc = "start"
    /\ LET i == [iss EXCEPT !.window = Some(IssueWindow(clock, iss.expiry_hours))]
       IN  IF env_ok
           THEN iss' = [i EXCEPT !.pc = "attempt", !.strategy = Some(RetryStrategy)]
           ELSE iss' = [i EXCEPT !.pc = "done", !.result = Some(CredentialErr)]
    /\ UNCHANGED <<clock, env_ok, ctx, crs, secrets, pc, loc, minted, pol, sec, dm>>

\* sas.rs 43-48, 58-59: an attempt of generate_client succeeds
IssuerAttemptOk ==
    /\ iss.pc = "attempt"
    /\ iss' = [iss EXCEPT !.pc = "done",
                          !.attempts = @ + 1,
                          !.passed = Append(@, iss.window[1]),
                          !.result = Some([ok |-> TRUE, token |-> <<"sas", 1>>,
                                           expiry |-> iss.window[1].expiry])]
    /\ UNCHANGED <<clock, env_ok, ctx, crs, secrets, pc, loc, minted, pol, sec, dm>>

\* sas.rs 43-56: an attempt fails; Retry::spawn asks the strategy for the
\* next delay, sleeps for it and tries again, or gives the error back when
\* the strategy has ended.  Time may pass during the attempt and the sleep.
IssuerAttemptErr ==
    /\ iss.pc = "attempt"
    /\ \E cause \in IssuerCauses, percent \in JitterPercents,
          later \in {clock, IF clock < MaxClock THEN clock + 1 ELSE clock} :
         LET i == [iss EXCEPT !.attempts = @ + 1,
                              !.passed = Append(@, iss.window[1]),
                              !.cause = Some(cause)]
             n == TakeNext(iss.strategy[1])
         IN  IF n = None
             THEN /\ iss' = [i EXCEPT !.pc = "done",
                                      !.result = Some(RetriesErr(cause))]
                  /\ clock' = clock
             ELSE /\ iss' = [i EXCEPT !.strategy = Some(n[1].strategy),
                                      !.waits = Append(@, n[1].delay),
                                      !.slept = Some(Jitter(n[1].delay, percent))]
                  /\ clock' = later
    /\ UNCHANGED <<env_ok, ctx, crs, secrets, pc, loc, minted, pol, sec, dm>>

NextIssuer ==
    \/ IssuerStart
    \/ IssuerAttemptOk
    \/ IssuerAttemptErr

SpecIssuer == InitIssuer /\ [][NextIssuer]_vars

C20_BackoffSequence ==
    /\ \A k \in 1..Len(iss.waits) :
         iss.waits[k] = (IF 500 * 2^(k - 1) > 30000 THEN 30000 ELSE 500 * 2^(k - 1))
    /\ (iss.waits # <<>> /\ iss.slept # None)
         => iss.slept[1] <= iss.waits[Len(iss.waits)]

----------------------------------------------------------------------------
(* Two resources of one namespace, reconciled concurrently *)

Resources2 == {"sasgen-a", "sasgen-b"}

\* both resources name the same storage account and container; each may or
\* may not set spec.secretName, to the same custom name
InitMulti ==
    /\ clock = 0
    /\ env_ok = TRUE
    /\ ctx = [sas_renewal_hours |-> 1, sas_ttl_hours |-> 2]
    /\ crs \in [Resources2 ->
                 [name : Resources2,
                  spec : [storage_account   : {StorageAccount},
                          container_name    : {ContainerName},
                          secret_name       : SecretNameChoices,
                          sas_ttl_hours     : {None},
                          sas_renewal_hours : {None}],
                  status : {None}]]
    /\ \A r \in Resources2 : crs[r].name = r
    /\ secrets = [n \in SecretNames |-> None]
    /\ pc = [r \in Resources2 |-> "idle"]
    /\ loc = [r \in Resources2 |-> IdleLoc]
    /\ minted = 0
    /\ pol = NoPolicyCall
    /\ sec = NoSecretCall
    /\ iss = NoIssuerCall
    /\ dm = NoDaemon

\* the controller runs reconcile for different resources concurrently: the
\* steps of the two reconciliations interleave freely
NextMulti ==
    \/ \E r \in Resources2 : ReconcileStart(r)
    \/ \E r \in Resources2 : IssueBegin(r)
    \/ \E r \in Resources2 : IssueAttemptOk(r)
    \/ \E r \in Resources2 : IssueAttemptErr(r)
    \/ \E r \in Resources2 : EnsureSecretGet(r)
    \/ \E r \in Resources2 : EnsureSecretPatch(r)
    \/ \E r \in Resources2 : EnsureSecretCreate(r)
    \/ \E r \in Resources2 : UpdateCrdStatus(r)
    \/ \E r \in Resources2 : ReconcileReturn(r)

SpecMulti == InitMulti /\ [][NextMulti]_vars

\* C14: a step of the reconciliation of resource a changes neither the
\* stored object of another resource b nor a secret owned by another
\* resource, whatever the two resources' specs are.
C14_NoCrossResourceWrites ==
    [][\A a \in Resources2 :
         (pc'[a] # pc[a] \/ loc'[a] # loc[a])
         => (/\ \A b \in Resources2 \ {a} : crs'[b] = crs[b]
             /\ \A n \in SecretNames :
                  (secrets[n] # None /\ secrets[n][1].owner \notin {None, Some(a)})
                  => secrets'[n] = secrets[n])]_vars

----------------------------------------------------------------------------
(* The polling daemon of main.rs: a pull tick spawns one                    *)
(* check-and-regenerate task per entry of the root ConfigMap                *)

MaxTasks == 4

\* Config::from_env with no SAS_TTL and no RECHECK in the environment
DaemonConfig == [validity_hours |-> 2, recheck_hours |-> 1]

DaemonKeySet == {DaemonKeys[i] : i \in 1..Len(DaemonKeys)}

\* the tasks a pull spawns, one per entry, in the map's order
SpawnedTasks(root) ==
    LET InRoot(k) == k \in root
    IN  [i \in 1..Len(SelectSeq(DaemonKeys, InRoot)) |->
            [key |-> SelectSeq(DaemonKeys, InRoot)[i], pc |-> "check_ttl",
             expiry |-> None]]

TaskInFlight(t) == t.pc \in {"check_ttl", "generate", "patch"}

\* check_ttl on what api.get returned: Valid when the expiry lies more
\* than recheck_hours ahead
CheckTtl(read, now, recheck_hours) ==
    IF read # None /\ read[1] - now > 0 /\ read[1] - now > Hours(recheck_hours)
    THEN "Valid" ELSE "NeedsRegen"

InitDaemon ==
    /\ NoReconcile
    /\ iss = NoIssuerCall
    /\ clock = 0
    /\ env_ok = TRUE
    /\ \E root \in (SUBSET DaemonKeySet) \ {{}} :
         dm = [NoDaemon EXCEPT !.phase = "running", !.root = root]

\* main.rs 69-73, 81-101: the interval fires and pull_accounts runs; a
\* failed read of the root ConfigMap spawns nothing
IntervalTick ==
    /\ dm.phase = "running"
    /\ Len(dm.tasks) + Cardinality(dm.root) <= MaxTasks
    /\ \E fetched \in BOOLEAN :
         dm' = IF fetched
               THEN [dm EXCEPT !.tasks = @ \o SpawnedTasks(dm.root)]
               ELSE dm
    /\ UNCHANGED <<clock, env_ok, ctx, crs, secrets, pc, loc, minted, pol, sec, iss>>

\* main.rs 106-112, 134-146: the task reads its ConfigMap (a failed read
\* counts as nothing there) and decides
TaskCheckTtl(i) ==
    /\ dm.tasks[i].pc = "check_ttl"
    /\ \E read \in {None, dm.cms[dm.tasks[i].key]} :
         dm' = [dm EXCEPT !.tasks[i].pc =
                  IF CheckTtl(read, clock, DaemonConfig.recheck_hours) = "Valid"
                  THEN "finished" ELSE "generate"]
    /\ UNCHANGED <<clock, env_ok, ctx, crs, secrets, pc, loc, minted, pol, sec, iss>>

\* main.rs 114: generate_container_sas returns, after however many retries
\* and waits; until then the task stays suspended here
TaskGenerate(i) ==
    /\ dm.tasks[i].pc = "generate"
    /\ \E ok \in BOOLEAN :
         dm' = IF ok
               THEN [dm EXCEPT !.tasks[i].pc = "patch",
                               !.tasks[i].expiry =
                                   Some(IssueWindow(clock, DaemonConfig.validity_hours).expiry)]
               ELSE [dm EXCEPT !.tasks[i].pc = "finished"]
    /\ UNCHANGED <<clock, env_ok, ctx, crs, secrets, pc, loc, minted, pol, sec, iss>>

\* main.rs 116-131: apply the ConfigMap
TaskPatch(i) ==
    /\ dm.tasks[i].pc = "patch"
    /\ \E ok \in BOOLEAN :
         dm' = IF ok
               THEN [dm EXCEPT !.tasks[i].pc = "finished",
                               !.cms[dm.tasks[i].key] = dm.tasks[i].expiry]
               ELSE [dm EXCEPT !.tasks[i].pc = "finished"]
    /\ UNCHANGED <<clock, env_ok, ctx, crs, secrets, pc, loc, minted, pol, sec, iss>>

\* main.rs 65-68, 77-78: the shutdown branch breaks out of the loop and main
\* returns; the runtime is dropped with it, and every spawned task that has
\* not finished is dropped at the await it is suspended in
ShutdownSignal ==
    /\ dm.phase = "running"
    /\ dm' = [dm EXCEPT !.phase = "exited",
                        !.tasks = [i \in 1..Len(dm.tasks) |->
                                     IF TaskInFlight(dm.tasks[i])
                                     THEN [dm.tasks[i] EXCEPT !.pc = "aborted"]
                                     ELSE dm.tasks[i]]]
    /\ UNCHANGED <<clock, env_ok, ctx, crs, secrets, pc, loc, minted, pol, sec, iss>>

NextDaemon ==
    \/ IntervalTick
    \/ \E i \in 1..Len(dm.tasks) : TaskCheckTtl(i)
    \/ \E i \in 1..Len(dm.tasks) : TaskGenerate(i)
    \/ \E i \in 1..Len(dm.tasks) : TaskPatch(i)
    \/ ShutdownSignal

SpecDaemon == InitDaemon /\ [][NextDaemon]_vars

\* C15: at any time at most one check-and-regenerate task per ConfigMap
\* name is in flight, also when a pull tick fires while an earlier task of
\* that name is still suspended in the issuer or in a network call.
C15_OneInFlightPerKey ==
    \A k \in DaemonKeySet :
        Cardinality({i \in 1..Len(dm.tasks) :
                        dm.tasks[i].key = k /\ TaskInFlight(dm.tasks[i])}) <= 1

\* C16: once the daemon has exited on the shutdown signal, every task that
\* had been started has run to its end; none was dropped on the way.
C16_GracefulDrain ==
    dm.phase = "exited"
    => \A i \in 1..Len(dm.tasks) : dm.tasks[i].pc = "finished"

----------------------------------------------------------------------------
(* The validity window of an issuance *)

\* C21: the window the issuer requests starts exactly 5 s before the
\* reconciliation's now and ends at now plus the TTL hours, and every
\* attempt of the invocation is made with that window.  Instants are
\* compared in seconds, an hour being 3600 of them.
C21_WindowBackDatedFiveSeconds ==
    \A r \in Resources :
        loc[r].window # None =>
            LET SecondsPerTick == 3600 \div TicksPerHour
                w == loc[r].window[1]
            IN  /\ w.start * SecondsPerTick = loc[r].now * SecondsPerTick - 5
                /\ w.expiry = loc[r].now + Hours(loc[r].ttl_hours)


\* C22: with a TTL longer than the renewal window, a reconciliation that
\* follows a successful regeneration and runs before (expiry - renewal
\* window) issues nothing and writes nothing, and a reconciliation that
\* does issue again does so no earlier than (TTL - renewal window) after the
\* regeneration recorded in the status.
C22_NoIssuanceThrash ==
    \A r \in Resources :
        (/\ pc[r] # "idle"
         /\ loc[r].sasgen[1].status # None
         /\ loc[r].ttl_hours > loc[r].renewal_hours)
        => LET st == loc[r].sasgen[1].status[1]
               generated == ParseRfc3339(st.generated[1])
               expiry == ParseRfc3339(st.expiry[1])
               renewal == loc[r].renewal_hours * TicksPerHour
               ttl == loc[r].ttl_hours * TicksPerHour
           IN  /\ generated # None /\ expiry # None
               /\ expiry[1] = generated[1] + ttl
               /\ loc[r].now < expiry[1] - renewal
                    => (/\ pc[r] = "done"
                        /\ loc[r].calls = {}
                        /\ loc[r].token_info = None
                        /\ loc[r].result = Some([ok |-> TRUE, err |-> "none"])
                        /\ loc[r].requeue = 15
                        /\ crs[r].status = Some(st)
                        /\ secrets = loc[r].pre_secrets[1])
               /\ loc[r].window # None
                    => loc[r].window[1].start >= generated[1] + (ttl - renewal)

\* C22 witness: a reconciliation that ran after a regeneration, later than
\* it but still before the renewal window opened, and did nothing
C22_Witness ==
    \E r \in Resources :
        /\ pc[r] = "done"
        /\ loc[r].sasgen[1].status # None
        /\ loc[r].ttl_hours > loc[r].renewal_hours
        /\ loc[r].renewal_hours > 0
        /\ loc[r].now > ParseRfc3339(loc[r].sasgen[1].status[1].generated[1])[1]
        /\ loc[r].now < ParseRfc3339(loc[r].sasgen[1].status[1].expiry[1])[1]
                          - Hours(loc[r].renewal_hours)
        /\ loc[r].calls = {}

----------------------------------------------------------------------------
(* Which failures of the issuer are retried *)

\* C23 as stated: whatever fails inside the issuer, the issuer returns an
\* error only after attempts were made and the retry budget is used up.
C23_EveryFailureRetried ==
    (iss.pc = "done" /\ iss.result # None /\ ~iss.result[1].ok)
    => (/\ iss.attempts >= 1
        /\ iss.strategy # None
        /\ iss.strategy[1].left = 0)

\* C23 amended: every failure of the remote issuance call, whatever its
\* cause, uses one delay of the strategy and is followed by another attempt
\* until no delay is left, and only then does the issuer return the
\* issuance error; a credential that cannot be built from the environment
\* fails the issuer at once, before the retry loop, with no attempt made.
C23_RemoteFailuresRetried ==
    /\ (iss.pc = "attempt" /\ iss.cause # None)
         => (/\ Len(iss.waits) = iss.attempts
             /\ iss.strategy[1].left = RetryDelays - iss.attempts)
    /\ (iss.pc = "done" /\ iss.result # None /\ ~iss.result[1].ok /\ env_ok)
         => (/\ iss.strategy[1].left = 0
             /\ Len(iss.waits) = RetryDelays
             /\ iss.attempts = Len(iss.waits) + 1
             /\ iss.result[1] = RetriesErr(iss.cause[1]))
    /\ (iss.pc = "done" /\ ~env_ok)
         => (/\ iss.result = Some(CredentialErr)
             /\ iss.attempts = 0
             /\ iss.strategy = None
             /\ iss.waits = <<>>)

\* C23 witness: an issuance whose every attempt failed, the last one on the
\* delegation key, given up only with no delay left
C23_Witness ==
    /\ iss.pc = "done"
    /\ env_ok
    /\ iss.result = Some(RetriesErr("delegation_key"))
    /\ iss.strategy[1].left = 0
    /\ Len(iss.waits) = RetryDelays

====
